---- MODULE Spec2Model ----
(***************************************************************************)
(* giscus-bot: the comment generation pipeline (src/core/generator.ts) and *)
(* the GitHub Discussions publisher it drives (src/core/publisher.ts).     *)
(*                                                                         *)
(* Strings are modelled as sequences of tokens, so that concatenation,     *)
(* splitting, case folding and exact comparison are computed.              *)
(* Every await of the pipeline is two steps: the request is issued (it     *)
(* enters the run's inflight list) and it later returns or rejects.  The   *)
(* synchronous code between two awaits belongs to the step that resumes    *)
(* the run.                                                                *)
(***************************************************************************)
EXTENDS Integers, Sequences, FiniteSets, TLC

VARIABLES
    config,          \* the GiscusBotConfig and credential shared by the invocations
    run,             \* run[r]: the local state of invocation r of generate()
    discussions,     \* the discussions of the remote repository, in creation order
    remoteComments,  \* the top-level comments of the remote repository, in posting order
    job              \* the GitHub Action job (action.ts run()), idle in the other entry points

vars == <<config, run, discussions, remoteComments, job>>

-----------------------------------------------------------------------------
(* Bounds of the model *)

MaxRuns == 2          \* invocations of generate() that may be started
MaxPersonaList == 2   \* longest configured persona list

Runs == 1..MaxRuns

-----------------------------------------------------------------------------
(* Values *)

Null == <<"null">>

PersonaNames == {<<"A">>, <<"B">>}
Personas == {[name |-> n] : n \in PersonaNames}
PersonaLists == UNION {[1..n -> Personas] : n \in 0..MaxPersonaList}
CapValues == (0 - 1)..(MaxPersonaList + 1)

LabelPrefix == <<"AI">>

\* The provider's answer is opaque to the pipeline: the text written in the
\* voice of a persona is named after the persona.
ProviderText(persona) == <<"comment by ">> \o persona.name

\* What a model may answer, character by character: no content at all (null
\* content, no text block), the empty string, blanks only, and text with and
\* without blanks around it.
RawOutputs == {Null, <<>>, <<" ">>, <<" ", "o", "k", " ">>, <<"o", "k">>}

\* The providers createProvider builds, the predictable provider of the tests
\* ("fake") and one that hands the model's text on unchanged ("echo").
RealProviders == {"openai", "claude", "ollama"}
ModelOutputs(providerName) ==
    CASE providerName = "fake" -> {<<"o", "k">>}
      [] providerName = "echo" -> RawOutputs \ {Null}
      [] OTHER -> RawOutputs

Title1 == <<"P", "t">>
Title2 == <<"p", "t">>
Title3 == <<"P", "t", "2">>
Title4 == <<"P", "t", " ">>
Titles == {Title1, Title2}

PostUrl == <<"https://blog/post">>
FilePath == <<"_posts/post.md">>

\* Repository file paths of a push, character by character
FileJekyllDated == <<"_", "p", "o", "s", "t", "s", "/", "2", "0", "2", "4", "-", "0", "6", "-", "1", "5", "-", "h", "i", ".", "m", "d">>
FileJekyllPlain == <<"_", "p", "o", "s", "t", "s", "/", "a", "b", "o", "u", "t", ".", "m", "d">>
FileHugoPost == <<"c", "o", "n", "t", "e", "n", "t", "/", "p", "o", "s", "t", "s", "/", "h", "i", ".", "m", "d">>
FileHugoIndex == <<"c", "o", "n", "t", "e", "n", "t", "/", "p", "o", "s", "t", "s", "/", "i", "n", "d", "e", "x", ".", "m", "d">>
FileShortDate == <<"p", "o", "s", "t", "s", "/", "2", "0", "2", "4", "-", "6", "-", "1", "5", "-", "h", "i", ".", "m", "d", "x">>
FileHugoRoot == <<"c", "o", "n", "t", "e", "n", "t", "/", "i", "n", "d", "e", "x", ".", "m", "d">>
FileOutsideBlog == <<"d", "o", "c", "s", "/", "h", "i", ".", "m", "d">>
FileMarkdownExt == <<"_", "p", "o", "s", "t", "s", "/", "h", "i", ".", "m", "a", "r", "k", "d", "o", "w", "n">>

PathFiles == {FileJekyllDated, FileJekyllPlain, FileHugoPost, FileHugoIndex,
              FileShortDate, FileHugoRoot, FileOutsideBlog, FileMarkdownExt}

\* site.url, its last characters apart
SiteUrl == <<"https://b.com">>
SiteUrls == {SiteUrl, SiteUrl \o <<"/">>, SiteUrl \o <<"/", "/">>}

\* site.pathPattern
PatternYearSlug == <<"/", "b", "/", "{", "y", "e", "a", "r", "}", "/", "{", "s", "l", "u", "g", "}", "/">>
PatternSlugTwice == <<"/", "{", "s", "l", "u", "g", "}", "/", "{", "s", "l", "u", "g", "}", "/">>
PatternFilename == <<"/", "{", "d", "a", "y", "}", "{", "m", "o", "n", "t", "h", "}", "/", "{", "f", "i", "l", "e", "n", "a", "m", "e", "}">>
PathPatterns == {PatternYearSlug, PatternSlugTwice, PatternFilename}

RepoGood == <<"o", "/", "r">>
RepoThreeSegments == <<"a", "/", "b", "/", "c">>
RepoStrings == {RepoGood, <<"o">>, <<"o", "/">>, <<"/", "r">>, RepoThreeSegments}

CategoryBlog == <<"B", "c">>
CategoryNames == {<<"b", "c">>, <<"N", "o">>}
RepoCategories == <<[id |-> <<"DC_1">>, name |-> <<"G", "e">>],
                    [id |-> <<"DC_2">>, name |-> CategoryBlog]>>
RepoId == <<"R_123">>

\* The answer of the repository query
Repository == [id |-> RepoId, discussionCategories |-> RepoCategories]

DiscussionId(n) == <<"D_", ToString(n)>>
DiscussionUrl(n) == <<"https://github.com/o/r/discussions/", ToString(n)>>
NoDiscussion == [id |-> Null, url |-> Null]

-----------------------------------------------------------------------------
(* JavaScript helpers *)

MathMin(a, b) == IF a < b THEN a ELSE b
MathMax(a, b) == IF a > b THEN a ELSE b

\* Array.prototype.slice(0, end): a negative end counts from the back.
SliceTo(s, end) ==
    LET len == Len(s)
        fin == IF end < 0 THEN MathMax(len + end, 0) ELSE MathMin(end, len)
    IN  SubSeq(s, 1, fin)

\* String.prototype.split(sep) on a string given as a sequence of characters.
RECURSIVE SplitFrom(_, _, _)
SplitFrom(s, sep, cur) ==
    IF s = <<>> THEN <<cur>>
    ELSE IF Head(s) = sep THEN <<cur>> \o SplitFrom(Tail(s), sep, <<>>)
    ELSE SplitFrom(Tail(s), sep, Append(cur, Head(s)))

Split(s, sep) == SplitFrom(s, sep, <<>>)

\* const [owner, repo] = parts: a missing element is undefined.
Undefined == <<"undefined">>
Destructure(parts, i) == IF i <= Len(parts) THEN parts[i] ELSE Undefined

\* !x for a string or undefined
Falsy(x) == x = Undefined \/ x = <<>>

LowerChar(c) ==
    CASE c = "P" -> "p"
      [] c = "B" -> "b"
      [] c = "G" -> "g"
      [] c = "N" -> "n"
      [] OTHER -> c

\* String.prototype.toLowerCase()
ToLowerCase(s) == [i \in DOMAIN s |-> LowerChar(s[i])]

\* String.prototype.trim()
RECURSIVE TrimStart(_)
TrimStart(s) == IF s # <<>> /\ Head(s) = " " THEN TrimStart(Tail(s)) ELSE s

RECURSIVE TrimEnd(_)
TrimEnd(s) ==
    IF s # <<>> /\ s[Len(s)] = " " THEN TrimEnd(SubSeq(s, 1, Len(s) - 1)) ELSE s

Trim(s) == TrimEnd(TrimStart(s))

-----------------------------------------------------------------------------
(* action.ts: from a repository file path to the live URL *)

EndsWith(s, suffix) ==
    Len(suffix) <= Len(s) /\ SubSeq(s, Len(s) - Len(suffix) + 1, Len(s)) = suffix

StartsWith(s, prefix) == Len(prefix) <= Len(s) /\ SubSeq(s, 1, Len(prefix)) = prefix

DropLast(s, n) == SubSeq(s, 1, Len(s) - n)
DropFirst(s, n) == SubSeq(s, n + 1, Len(s))

\* s.replace(/\.(e1|e2|...)$/, ""): the alternatives are tried in order
RECURSIVE ReplaceExtension(_, _)
ReplaceExtension(s, extensions) ==
    IF extensions = <<>> THEN s
    ELSE IF EndsWith(s, <<".">> \o Head(extensions))
         THEN DropLast(s, Len(Head(extensions)) + 1)
         ELSE ReplaceExtension(s, Tail(extensions))

JekyllExtensions == <<<<"m", "d">>, <<"m", "d", "x">>, <<"m", "a", "r", "k", "d", "o", "w", "n">>, <<"h", "t", "m", "l">>>>
HugoExtensions == <<<<"m", "d">>, <<"m", "d", "x">>, <<"h", "t", "m", "l">>>>

\* path.basename (posix): trailing slashes are ignored, then the last segment
RECURSIVE StripTrailingSlashes(_)
StripTrailingSlashes(s) ==
    IF Len(s) > 1 /\ s[Len(s)] = "/" THEN StripTrailingSlashes(DropLast(s, 1)) ELSE s

basename(filePath) ==
    LET p == StripTrailingSlashes(filePath)
        slashes == {i \in DOMAIN p : p[i] = "/"}
    IN  IF slashes = {} \/ p = <<"/">> THEN p
        ELSE DropFirst(p, CHOOSE i \in slashes : \A j \in slashes : j <= i)

IsDigit(c) == c \in {"0", "1", "2", "3", "4", "5", "6", "7", "8", "9"}

\* filename.match(/^(\d{4})-(\d{2})-(\d{2})-(.+)$/)
DateMatch(filename) ==
    LET ok == /\ Len(filename) >= 12
              /\ \A i \in {1, 2, 3, 4, 6, 7, 9, 10} : IsDigit(filename[i])
              /\ \A i \in {5, 8, 11} : filename[i] = "-"
    IN  IF ok
        THEN [matched |-> TRUE, year |-> SubSeq(filename, 1, 4),
              month |-> SubSeq(filename, 6, 7), day |-> SubSeq(filename, 9, 10),
              slug |-> DropFirst(filename, 11)]
        ELSE [matched |-> FALSE, year |-> <<>>, month |-> <<>>, day |-> <<>>,
              slug |-> filename]

jekyllFileToPath_NoFallback(filePath) ==
    LET filename == ReplaceExtension(basename(filePath), JekyllExtensions)
        match == DateMatch(filename)
    IN  <<"/">> \o match.year \o <<"/">> \o match.month \o <<"/">> \o match.day
            \o <<"/">> \o match.slug \o <<"/">>

jekyllFileToPath(filePath) ==
    LET filename == ReplaceExtension(basename(filePath), JekyllExtensions)
        match == DateMatch(filename)
    IN  IF ~match.matched THEN <<"/">> \o filename \o <<"/">>
        ELSE <<"/">> \o match.year \o <<"/">> \o match.month \o <<"/">> \o match.day
                 \o <<"/">> \o match.slug \o <<"/">>

ContentPrefix == <<"c", "o", "n", "t", "e", "n", "t", "/">>
IndexSuffix == <<"/", "i", "n", "d", "e", "x">>

hugoFileToPath_KeepsIndex(filePath) ==
    LET withoutPrefix == IF StartsWith(filePath, ContentPrefix)
                         THEN DropFirst(filePath, Len(ContentPrefix)) ELSE filePath
        withoutExt == ReplaceExtension(withoutPrefix, HugoExtensions)
    IN  <<"/">> \o withoutExt \o <<"/">>

hugoFileToPath(filePath) ==
    LET withoutPrefix == IF StartsWith(filePath, ContentPrefix)
                         THEN DropFirst(filePath, Len(ContentPrefix)) ELSE filePath
        withoutExt == ReplaceExtension(withoutPrefix, HugoExtensions)
        cleaned == IF EndsWith(withoutExt, IndexSuffix)
                   THEN DropLast(withoutExt, Len(IndexSuffix)) ELSE withoutExt
    IN  <<"/">> \o cleaned \o <<"/">>

\* The positions where needle occurs in s
Occurrences(s, needle) ==
    {i \in 1..(Len(s) - Len(needle) + 1) : SubSeq(s, i, i + Len(needle) - 1) = needle}

\* String.prototype.replace(needle, replacement) with a string needle: the
\* first occurrence only
ReplaceFirst(s, needle, replacement) ==
    LET at == Occurrences(s, needle)
    IN  IF at = {} THEN s
        ELSE LET i == CHOOSE j \in at : \A k \in at : j <= k
             IN  SubSeq(s, 1, i - 1) \o replacement \o DropFirst(s, i + Len(needle) - 1)

PlaceholderSlug == <<"{", "s", "l", "u", "g", "}">>
PlaceholderFilename == <<"{", "f", "i", "l", "e", "n", "a", "m", "e", "}">>
PlaceholderYear == <<"{", "y", "e", "a", "r", "}">>
PlaceholderMonth == <<"{", "m", "o", "n", "t", "h", "}">>
PlaceholderDay == <<"{", "d", "a", "y", "}">>

customFileToPath(filePath, pattern) ==
    LET filename == ReplaceExtension(basename(filePath), JekyllExtensions)
        match == DateMatch(filename)
        r1 == ReplaceFirst(pattern, PlaceholderSlug, match.slug)
        r2 == ReplaceFirst(r1, PlaceholderFilename, filename)
        r3 == ReplaceFirst(r2, PlaceholderYear, match.year)
        r4 == ReplaceFirst(r3, PlaceholderMonth, match.month)
    IN  ReplaceFirst(r4, PlaceholderDay, match.day)

\* filePathToUrl: the url, or the thrown error (no pathPattern, unknown framework)
filePathToUrl(filePath, site) ==
    LET baseUrl == IF EndsWith(site.url, <<"/">>) THEN DropLast(site.url, 1) ELSE site.url
    IN  CASE site.framework = "jekyll" ->
                 [ok |-> TRUE, url |-> baseUrl \o jekyllFileToPath(filePath)]
          [] site.framework = "hugo" ->
                 [ok |-> TRUE, url |-> baseUrl \o hugoFileToPath(filePath)]
          [] site.framework = "custom" ->
                 IF Falsy(site.pathPattern) THEN [ok |-> FALSE, url |-> Null]
                 ELSE [ok |-> TRUE,
                       url |-> baseUrl \o customFileToPath(filePath, site.pathPattern)]
          [] OTHER -> [ok |-> FALSE, url |-> Null]

BlogDirectories == {<<"c", "o", "n", "t", "e", "n", "t", "/">>, <<"_", "p", "o", "s", "t", "s", "/">>, <<"s", "r", "c", "/", "p", "o", "s", "t", "s", "/">>, <<"p", "o", "s", "t", "s", "/">>, <<"b", "l", "o", "g", "/">>}

\* file.match(/\.(md|mdx)$/) && file.match(/^(content|_posts|src\/posts|posts|blog)\//)
IsBlogPost(file) ==
    /\ EndsWith(file, <<".", "m", "d">>) \/ EndsWith(file, <<".", "m", "d", "x">>)
    /\ \E d \in BlogDirectories : StartsWith(file, d)

-----------------------------------------------------------------------------
(* providers: generateComment on the model's answer *)

\* OpenAIProvider: if (!content) throw; return content.trim()
OpenAIGenerateComment(content) ==
    IF content = Null \/ content = <<>> THEN [ok |-> FALSE, text |-> Null]
    ELSE [ok |-> TRUE, text |-> Trim(content)]

\* OllamaProvider: if (!content) throw; return content.trim()
OllamaGenerateComment(content) ==
    IF content = Null \/ content = <<>> THEN [ok |-> FALSE, text |-> Null]
    ELSE [ok |-> TRUE, text |-> Trim(content)]

\* ClaudeProvider: if (!block || block.type !== "text") throw; return block.text.trim()
ClaudeGenerateComment(blockText) ==
    IF blockText = Null THEN [ok |-> FALSE, text |-> Null]
    ELSE [ok |-> TRUE, text |-> Trim(blockText)]

\* provider.generateComment(postContext, persona), given what the model answered
generateComment(providerName, raw, persona) ==
    CASE providerName = "openai" -> OpenAIGenerateComment(raw)
      [] providerName = "ollama" -> OllamaGenerateComment(raw)
      [] providerName = "claude" -> ClaudeGenerateComment(raw)
      [] providerName = "echo" -> [ok |-> TRUE, text |-> raw]
      [] OTHER -> [ok |-> TRUE, text |-> ProviderText(persona)]

-----------------------------------------------------------------------------
(* generator.ts: formatComment and the pieces of generate() *)

formatComment_TrimsText(comment, personaName, labelPrefix) ==
    labelPrefix \o <<" · Persona: ">> \o personaName \o <<"\n\n">> \o Trim(comment)

\* `${labelPrefix} · Persona: ${personaName}\n\n${comment}`
formatComment(comment, personaName, labelPrefix) ==
    labelPrefix \o <<" · Persona: ">> \o personaName \o <<"\n\n">> \o comment

\* Step 2 of generate(): Math.min, then slice(0, personaCount)
SelectPersonas(cfg) ==
    LET personaCount == MathMin(cfg.limits.maxPersonas, Len(cfg.personas))
    IN  SliceTo(cfg.personas, personaCount)

ShouldPublish_IgnoresDryRun(rec) == TRUE

\* if (!options.dryRun)
ShouldPublish(rec) == ~rec.dryRun

\* const [owner, repo] = config.github.repo.split("/"); if (!owner || !repo) throw
ParseRepo(repo) ==
    LET parts == Split(repo, "/")
        owner == Destructure(parts, 1)
        name  == Destructure(parts, 2)
    IN  [ok |-> ~(Falsy(owner) \/ Falsy(name)), owner |-> owner, repo |-> name]

discussionBody(title) == <<"Discussion for: ">> \o title

Call(op, target, arg) == [op |-> op, target |-> target, arg |-> arg]

\* The state of an invocation that has not been started.
InitRun ==
    [pc |-> "init", dryRun |-> FALSE, post |-> [url |-> Null, title |-> Null],
     genCalls |-> <<>>, comments |-> <<>>, inflight |-> <<>>,
     pubCalls |-> <<>>, calls |-> <<>>,
     discussion |-> NoDiscussion, discussionUrl |-> Null, posted |-> 0,
     found |-> FALSE, rejected |-> <<>>, result |-> [returned |-> FALSE, discussionUrl |-> Null,
                                  postTitle |-> Null, postUrl |-> Null, comments |-> <<>>],
     error |-> "none", errorValue |-> Null]

\* throw: the promise of generate() rejects.
Throw(rec, err) == [rec EXCEPT !.pc = "failed", !.error = err]

\* throw new Error(...) whose message quotes a value
ThrowNaming(rec, err, value) == [Throw(rec, err) EXCEPT !.errorValue = value]

\* return { postTitle, postUrl, discussionUrl, comments }
Return(rec) ==
    [rec EXCEPT !.pc = "done",
                !.result = [returned |-> TRUE,
                            postTitle |-> rec.post.title,
                            postUrl |-> rec.post.url,
                            discussionUrl |-> rec.discussionUrl,
                            comments |-> rec.comments]]

\* The awaited request has settled: the run resumes.
Settled(rec) == [rec EXCEPT !.inflight = Tail(@)]

IssueAddComment_LastFirst(rec) ==
    LET body == rec.comments[Len(rec.comments) - rec.posted].formattedComment
    IN  [rec EXCEPT !.pc = "addComment",
                    !.inflight = Append(@, "addComment"),
                    !.pubCalls = Append(@, Call("addComment", rec.discussion.id, body)),
                    !.calls = Append(@, Call("addDiscussionComment", rec.discussion.id, body))]

IssueAddComment_RawText(rec) ==
    LET body == rec.comments[rec.posted + 1].comment
    IN  [rec EXCEPT !.pc = "addComment",
                    !.inflight = Append(@, "addComment"),
                    !.pubCalls = Append(@, Call("addComment", rec.discussion.id, body)),
                    !.calls = Append(@, Call("addDiscussionComment", rec.discussion.id, body))]

\* await publisher.addComment(discussion.id, result.formattedComment)
IssueAddComment(rec) ==
    LET body == rec.comments[rec.posted + 1].formattedComment
    IN  [rec EXCEPT !.pc = "addComment",
                    !.inflight = Append(@, "addComment"),
                    !.pubCalls = Append(@, Call("addComment", rec.discussion.id, body)),
                    !.calls = Append(@, Call("addDiscussionComment", rec.discussion.id, body))]

PublishLoop_StopsOneShort(rec) ==
    IF rec.posted + 1 < Len(rec.comments) THEN IssueAddComment(rec) ELSE Return(rec)

\* for (const result of comments) { await publisher.addComment(...) }, then return
PublishLoop(rec) ==
    IF rec.posted < Len(rec.comments) THEN IssueAddComment(rec) ELSE Return(rec)

AfterDiscussion_UrlNotAssigned(rec, disc) ==
    PublishLoop([rec EXCEPT !.discussion = disc])

AfterDiscussion_SkipsWhenFound(rec, disc) ==
    LET assigned == [rec EXCEPT !.discussion = disc, !.discussionUrl = disc.url]
    IN  IF rec.found THEN Return(assigned) ELSE PublishLoop(assigned)

\* discussionUrl = discussion.url, then the posting loop
AfterDiscussion(rec, disc) ==
    PublishLoop([rec EXCEPT !.discussion = disc, !.discussionUrl = disc.url])

-----------------------------------------------------------------------------
(* publisher.ts: the GraphQL client and findOrCreateDiscussion *)

\* The remote search: the discussions whose title contains the query,
\* letter case ignored, in creation order.
LooseMatch(query, title) ==
    LET q == ToLowerCase(query)
        t == ToLowerCase(title)
    IN  \E i \in 0..(Len(t) - Len(q)) : SubSeq(t, i + 1, i + Len(q)) = q

SearchResults(discs, title) == SelectSeq(discs, LAMBDA d : LooseMatch(title, d.title))

findDiscussion_FirstNode(nodes, title) ==
    IF nodes = <<>> THEN NoDiscussion
    ELSE [id |-> nodes[1].id, url |-> nodes[1].url]

findDiscussion_IgnoreCase(nodes, title) ==
    LET hits == {i \in 1..Len(nodes) : ToLowerCase(nodes[i].title) = ToLowerCase(title)}
    IN  IF hits = {} THEN NoDiscussion
        ELSE LET i == CHOOSE j \in hits : \A k \in hits : j <= k
             IN  [id |-> nodes[i].id, url |-> nodes[i].url]

\* findDiscussion: the first node whose title is exactly the requested title
findDiscussion(nodes, title) ==
    LET hits == {i \in 1..Len(nodes) : nodes[i].title = title}
    IN  IF hits = {} THEN NoDiscussion
        ELSE LET i == CHOOSE j \in hits : \A k \in hits : j <= k
             IN  [id |-> nodes[i].id, url |-> nodes[i].url]

\* getRepoInfo: the category whose name matches, letter case ignored
FindCategory(categories, categoryName) ==
    LET hits == {i \in 1..Len(categories) :
                    ToLowerCase(categories[i].name) = ToLowerCase(categoryName)}
    IN  IF hits = {} THEN Null
        ELSE categories[CHOOSE j \in hits : \A k \in hits : j <= k].id

getRepoInfo_CaseSensitive(repository, categoryName) ==
    LET hits == {i \in DOMAIN repository.discussionCategories :
                    repository.discussionCategories[i].name = categoryName}
    IN  IF hits = {}
        THEN [ok |-> FALSE, repoId |-> Null, categoryId |-> Null]
        ELSE [ok |-> TRUE, repoId |-> repository.id,
              categoryId |-> repository.discussionCategories[CHOOSE j \in hits : TRUE].id]

getRepoInfo_DefaultsToFirst(repository, categoryName) ==
    LET categoryId == FindCategory(repository.discussionCategories, categoryName)
    IN  [ok |-> TRUE, repoId |-> repository.id,
         categoryId |-> IF categoryId = Null THEN repository.discussionCategories[1].id
                        ELSE categoryId]

\* getRepoInfo on the answer of the repository query: { repoId, categoryId },
\* or the error that the category was not found
getRepoInfo(repository, categoryName) ==
    LET categoryId == FindCategory(repository.discussionCategories, categoryName)
    IN  IF categoryId = Null
        THEN [ok |-> FALSE, repoId |-> Null, categoryId |-> Null]
        ELSE [ok |-> TRUE, repoId |-> repository.id, categoryId |-> categoryId]

\* findDiscussion issues the search query
IssueSearch(rec, parsed) ==
    [rec EXCEPT !.pc = "search",
                !.inflight = Append(@, "search"),
                !.calls = Append(@, Call("search", parsed.owner \o <<"/">> \o parsed.repo,
                                         rec.post.title))]

\* getRepoInfo issues the repository query
IssueRepoInfo(rec) ==
    [rec EXCEPT !.pc = "repoInfo",
                !.inflight = Append(@, "repoInfo"),
                !.calls = Append(@, Call("repository", Null, Null))]

\* createDiscussion issues the mutation
IssueCreate(rec, repoId, categoryId) ==
    [rec EXCEPT !.pc = "create",
                !.inflight = Append(@, "create"),
                !.calls = Append(@, Call("createDiscussion",
                                         [repositoryId |-> repoId, categoryId |-> categoryId],
                                         rec.post.title))]

\* findOrCreateDiscussion(owner, repo, categoryName, title, body) up to its first
\* await; the client needs the token.
findOrCreateDiscussion(rec, cfg, parsed) ==
    LET called == [rec EXCEPT !.pubCalls =
                      Append(@, Call("findOrCreateDiscussion", rec.post.title,
                                     discussionBody(rec.post.title)))]
    IN  IF ~cfg.token THEN Throw(called, "AuthError") ELSE IssueSearch(called, parsed)

AfterSearch_AlwaysCreate(rec, existing) == IssueRepoInfo(rec)

AfterSearch_CreateFirst(rec, existing) ==
    IF existing # NoDiscussion
    THEN AfterDiscussion([rec EXCEPT !.found = TRUE], existing)
    ELSE IssueCreate(rec, Null, Null)

\* findOrCreateDiscussion after findDiscussion: an existing discussion is
\* returned to generate(), otherwise getRepoInfo and createDiscussion follow.
AfterSearch(rec, existing) ==
    IF existing # NoDiscussion
    THEN AfterDiscussion([rec EXCEPT !.found = TRUE], existing)
    ELSE IssueRepoInfo(rec)

createDiscussion_UniqueTitle(discs, title, r) ==
    IF \E i \in DOMAIN discs : discs[i].title = title THEN discs
    ELSE Append(discs, [id |-> DiscussionId(Len(discs) + 1), title |-> title,
                        url |-> DiscussionUrl(Len(discs) + 1), by |-> r])

\* The remote createDiscussion mutation: always a new thread, no duplicate check.
createDiscussion(discs, title, r) ==
    LET n == Len(discs) + 1
    IN  Append(discs, [id |-> DiscussionId(n), title |-> title,
                       url |-> DiscussionUrl(n), by |-> r])

-----------------------------------------------------------------------------
(* generator.ts: generate() *)

OnRejected_SkipsFailedComment(rec) ==
    IF Head(rec.inflight) = "addComment"
    THEN PublishLoop([Settled(rec) EXCEPT !.posted = @ + 1])
    ELSE Throw(Settled(rec), Head(rec.inflight))

OnRejected_ReturnsPartial(rec) == Return(Settled(rec))

\* An awaited promise rejects: no try/catch in generate(), the run ends.
OnRejected(rec) == Throw(Settled(rec), Head(rec.inflight))

\* generate(url, ...): await extractPost(urlOrContext)
CallExtractPost(rec, url) ==
    [rec EXCEPT !.pc = "extract", !.inflight = Append(@, "extract"),
                !.post = [url |-> url, title |-> Null]]

AfterGeneration_SkipsWhenNoComments(rec, cfg) ==
    IF ~ShouldPublish(rec) \/ rec.comments = <<>> THEN Return(rec)
    ELSE LET parsed == ParseRepo(cfg.github.repo)
         IN  IF ~parsed.ok THEN Throw(rec, "InvalidRepo")
             ELSE findOrCreateDiscussion(rec, cfg, parsed)

\* Step 4 up to the first await: dry run, repo parsing, discussion lookup
AfterGeneration(rec, cfg) ==
    IF ~ShouldPublish(rec) THEN Return(rec)
    ELSE LET parsed == ParseRepo(cfg.github.repo)
         IN  IF ~parsed.ok THEN Throw(rec, "InvalidRepo")
             ELSE findOrCreateDiscussion(rec, cfg, parsed)

IssueGenerate_AllAtOnce(rec, cfg) ==
    LET selected == SelectPersonas(cfg)
    IN  [rec EXCEPT !.pc = "generate",
                    !.inflight = @ \o [i \in DOMAIN selected |-> "generate"],
                    !.genCalls = @ \o [i \in DOMAIN selected |-> selected[i].name]]

\* await provider.generateComment(postContext, persona) for the next persona
IssueGenerate(rec, cfg) ==
    LET persona == SelectPersonas(cfg)[Len(rec.comments) + 1]
    IN  [rec EXCEPT !.pc = "generate",
                    !.inflight = Append(@, "generate"),
                    !.genCalls = Append(@, persona.name)]

GenerationLoop_PublishesAfterFirst(rec, cfg) ==
    IF rec.comments = <<>> /\ SelectPersonas(cfg) # <<>> THEN IssueGenerate(rec, cfg)
    ELSE AfterGeneration(rec, cfg)

\* Step 3: for (const persona of selectedPersonas) { ... }
GenerationLoop(rec, cfg) ==
    IF Len(rec.comments) < Len(SelectPersonas(cfg)) THEN IssueGenerate(rec, cfg)
    ELSE AfterGeneration(rec, cfg)

\* comments.push({ personaName, comment, formattedComment })
PushComment(rec, cfg, comment) ==
    LET persona == SelectPersonas(cfg)[Len(rec.comments) + 1]
    IN  [rec EXCEPT !.comments =
            Append(@, [personaName |-> persona.name,
                       comment |-> comment,
                       formattedComment |->
                           formatComment(comment, persona.name, cfg.labeling.prefix)])]

-----------------------------------------------------------------------------
(* Initial states *)

Configs ==
    [provider : [name : {"fake"}],
     personas : PersonaLists,
     limits : [maxPersonas : CapValues],
     github : [repo : RepoStrings, discussionCategory : CategoryNames],
     labeling : [prefix : {LabelPrefix}],
     token : BOOLEAN]

\* The discussion another author opened earlier, if any.
ExistingDiscussion(title) ==
    [id |-> DiscussionId(1), title |-> title, url |-> DiscussionUrl(1), by |-> 0]

InitialDiscussions == {<<>>, <<ExistingDiscussion(Title1)>>, <<ExistingDiscussion(Title3)>>}

\* The job of the GitHub Action before run() is called
InitJob ==
    [pc |-> "init", blogUrl |-> Null, payload |-> <<>>, urls |-> <<>>,
     current |-> 0, started |-> <<>>, error |-> "none", output |-> Null]

InitWith(cfgs) ==
    /\ config \in cfgs
    /\ run = [r \in Runs |-> InitRun]
    /\ discussions \in InitialDiscussions
    /\ remoteComments = <<>>
    /\ job = InitJob

Init == InitWith(Configs)

-----------------------------------------------------------------------------
(* Steps of an invocation r of generate() *)

Resume(r, rec) ==
    /\ run' = [run EXCEPT ![r] = rec]
    /\ UNCHANGED <<config, job>>

\* generate(urlOrContext, config, provider, options) is called.  A string is
\* scraped (await extractPost); a PostContext is used as it is.
Start(r) ==
    /\ run[r].pc = "init"
    /\ \A q \in Runs : q < r => run[q].pc # "init"
    /\ \E dry \in BOOLEAN :
         LET rec == [run[r] EXCEPT !.dryRun = dry]
         IN  \/ Resume(r, CallExtractPost(rec, PostUrl))
             \/ \E title \in Titles :
                  Resume(r, GenerationLoop(
                      [rec EXCEPT !.post = [url |-> FilePath, title |-> title]], config))
    /\ UNCHANGED <<discussions, remoteComments>>

\* action.ts, push trigger: generate(postContext, config, provider) for a new
\* markdown file; no options, so the run publishes.
StartPush(r) ==
    /\ run[r].pc = "init"
    /\ \A q \in Runs : q < r => run[q].pc # "init"
    /\ \E title \in Titles :
         Resume(r, GenerationLoop(
             [run[r] EXCEPT !.post = [url |-> FilePath, title |-> title]], config))
    /\ UNCHANGED <<discussions, remoteComments>>

\* extractPost resolves with the PostContext of the page.
ExtractReturn(r) ==
    /\ run[r].pc = "extract"
    /\ \E title \in Titles :
         Resume(r, GenerationLoop(
             [Settled(run[r]) EXCEPT !.post = [url |-> run[r].post.url, title |-> title]],
             config))
    /\ UNCHANGED <<discussions, remoteComments>>

\* The model has answered: provider.generateComment resolves with the comment
\* text, or throws, which rejects the await of generate().
GenerateReturn(r) ==
    /\ run[r].pc = "generate"
    /\ \E raw \in ModelOutputs(config.provider.name) :
         LET rec == Settled(run[r])
             persona == SelectPersonas(config)[Len(rec.comments) + 1]
             res == generateComment(config.provider.name, raw, persona)
         IN  Resume(r, IF res.ok
                       THEN GenerationLoop(PushComment(rec, config, res.text), config)
                       ELSE OnRejected([run[r] EXCEPT !.rejected = Append(@, "generate")]))
    /\ UNCHANGED <<discussions, remoteComments>>

\* The search answers; findDiscussion filters it, findOrCreateDiscussion either
\* returns the match to generate() or goes on to getRepoInfo.
SearchReturn(r) ==
    /\ run[r].pc = "search"
    /\ LET rec == Settled(run[r])
           found == findDiscussion(SearchResults(discussions, rec.post.title), rec.post.title)
       IN  Resume(r, AfterSearch(rec, found))
    /\ UNCHANGED <<discussions, remoteComments>>

\* The repository query answers; getRepoInfo matches the category.
RepoInfoReturn(r) ==
    /\ run[r].pc = "repoInfo"
    /\ LET rec == Settled(run[r])
           info == getRepoInfo(Repository, config.github.discussionCategory)
       IN  Resume(r, IF ~info.ok
                     THEN ThrowNaming(rec, "CategoryNotFound", config.github.discussionCategory)
                     ELSE IssueCreate(rec, info.repoId, info.categoryId))
    /\ UNCHANGED <<discussions, remoteComments>>

\* The createDiscussion mutation answers: the remote has a new discussion.
CreateReturn(r) ==
    /\ run[r].pc = "create"
    /\ LET after == createDiscussion(discussions, run[r].post.title, r)
           created == after[Len(after)]
       IN  /\ discussions' = after
           /\ Resume(r, AfterDiscussion(Settled(run[r]),
                                        [id |-> created.id, url |-> created.url]))
    /\ UNCHANGED remoteComments

\* The addDiscussionComment mutation answers: the remote has a new comment.
AddCommentReturn(r) ==
    /\ run[r].pc = "addComment"
    /\ LET rec == Settled(run[r])
           sent == rec.calls[Len(rec.calls)]
       IN  /\ remoteComments' = Append(remoteComments,
                  [discussionId |-> sent.target, body |-> sent.arg, by |-> r])
           /\ Resume(r, PublishLoop([rec EXCEPT !.posted = @ + 1]))
    /\ UNCHANGED discussions

\* The awaited request rejects (network, HTTP or provider error): nothing in
\* generate() catches it.
Reject(r) ==
    /\ run[r].inflight # <<>>
    /\ Resume(r, OnRejected([run[r] EXCEPT !.rejected = Append(@, Head(run[r].inflight))]))
    /\ UNCHANGED <<discussions, remoteComments>>

Step(r) ==
    \/ Start(r)
    \/ ExtractReturn(r)
    \/ GenerateReturn(r)
    \/ SearchReturn(r)
    \/ RepoInfoReturn(r)
    \/ CreateReturn(r)
    \/ AddCommentReturn(r)
    \/ Reject(r)

\* One invocation of generate(): the command line tool (cli.ts) runs exactly one.
FirstRun == CHOOSE r \in Runs : \A q \in Runs : r <= q

Next == Step(FirstRun)

Spec == Init /\ [][Next]_vars

\* Invocations from several processes against one remote repository, with a
\* configuration that lets every one of them publish.
PublishConfigs ==
    [provider : [name : {"fake"}],
     personas : {<<[name |-> <<"A">>], [name |-> <<"B">>]>>},
     limits : [maxPersonas : {1, 2}],
     github : [repo : {RepoGood}, discussionCategory : CategoryNames],
     labeling : [prefix : {LabelPrefix}],
     token : {TRUE}]

InitConc == InitWith(PublishConfigs)

NextConc ==
    \E r \in Runs :
        \/ StartPush(r)
        \/ GenerateReturn(r)
        \/ SearchReturn(r)
        \/ RepoInfoReturn(r)
        \/ CreateReturn(r)
        \/ AddCommentReturn(r)
        \/ Reject(r)

SpecConc == InitConc /\ [][NextConc]_vars

\* The same invocations when no two calls of findOrCreateDiscussion overlap.
InFindOrCreate(r) == run[r].pc \in {"search", "repoInfo", "create"}

Serialized == Cardinality({r \in Runs : InFindOrCreate(r)}) <= 1

\* A call of findOrCreateDiscussion waits for the one in progress to settle.
StartPushSerial(r) == StartPush(r) /\ Serialized'
GenerateReturnSerial(r) == GenerateReturn(r) /\ Serialized'

NextSerial ==
    \E r \in Runs :
        \/ StartPushSerial(r)
        \/ GenerateReturnSerial(r)
        \/ SearchReturn(r)
        \/ RepoInfoReturn(r)
        \/ CreateReturn(r)
        \/ AddCommentReturn(r)
        \/ Reject(r)

SpecSerial == InitConc /\ [][NextSerial]_vars

\* One invocation against a repository that already holds discussions with
\* equal and with similar titles (other letter case, more words, trailing
\* whitespace), opened by other authors.
RemoteDiscussion(n, title) ==
    [id |-> DiscussionId(n), title |-> title, url |-> DiscussionUrl(n), by |-> 0]

SearchableDiscussions ==
    {<<>>,
     <<RemoteDiscussion(1, Title2)>>,
     <<RemoteDiscussion(1, Title3), RemoteDiscussion(2, Title4)>>,
     <<RemoteDiscussion(1, Title3), RemoteDiscussion(2, Title1), RemoteDiscussion(3, Title1)>>}

InitSearch ==
    /\ config \in PublishConfigs
    /\ run = [r \in Runs |-> InitRun]
    /\ discussions \in SearchableDiscussions
    /\ remoteComments = <<>>
    /\ job = InitJob

SpecSearch == InitSearch /\ [][Next]_vars

\* One invocation with each provider, whatever the model answers.
ProviderConfigs ==
    [provider : [name : RealProviders \union {"echo"}],
     personas : {<<[name |-> <<"A">>], [name |-> <<"B">>]>>},
     limits : [maxPersonas : {1, 2}],
     github : [repo : {RepoGood}, discussionCategory : {CategoryBlog}],
     labeling : [prefix : {LabelPrefix, <<>>}],
     token : {TRUE}]

InitProvider ==
    /\ config \in ProviderConfigs
    /\ run = [r \in Runs |-> InitRun]
    /\ discussions = <<>>
    /\ remoteComments = <<>>
    /\ job = InitJob

SpecProvider == InitProvider /\ [][Next]_vars

-----------------------------------------------------------------------------
(* action.ts: run(), the job of the GitHub Action *)

\* The urls of the added and modified blog posts of the push, in payload
\* order; the first file that cannot be mapped throws.
RECURSIVE MapFiles(_, _)
MapFiles(files, site) ==
    IF files = <<>> THEN [ok |-> TRUE, urls |-> <<>>]
    ELSE IF ~IsBlogPost(Head(files)) THEN MapFiles(Tail(files), site)
    ELSE LET first == filePathToUrl(Head(files), site)
             rest == MapFiles(Tail(files), site)
         IN  IF ~first.ok \/ ~rest.ok THEN [ok |-> FALSE, urls |-> <<>>]
             ELSE [ok |-> TRUE, urls |-> <<first.url>> \o rest.urls]

\* A configuration without the site section
NoSite == [url |-> Null, framework |-> "none", pathPattern |-> Undefined]

\* The urls to process: the blog-url input, or the mapped files of the push
CollectUrls(j, cfg) ==
    IF j.blogUrl # Null THEN [ok |-> TRUE, error |-> "none", urls |-> <<j.blogUrl>>]
    ELSE IF cfg.site = NoSite THEN [ok |-> FALSE, error |-> "SiteRequired", urls |-> <<>>]
    ELSE LET mapped == MapFiles(j.payload, cfg.site)
         IN  IF mapped.ok THEN [ok |-> TRUE, error |-> "none", urls |-> mapped.urls]
             ELSE [ok |-> FALSE, error |-> "PathError", urls |-> <<>>]

\* core.setFailed(message)
SetFailed(j, err) == [j EXCEPT !.pc = "failed", !.error = err]

\* run() from its entry to the first await: inputs, config, the urls, and the
\* first generate(url, config, provider) up to its await.
JobStart ==
    /\ job.pc = "init"
    /\ IF ~config.token
       THEN /\ job' = SetFailed(job, "InputRequired")
            /\ UNCHANGED run
       ELSE LET collected == CollectUrls(job, config)
            IN  IF ~collected.ok
                THEN /\ job' = SetFailed(job, collected.error)
                     /\ UNCHANGED run
                ELSE IF collected.urls = <<>>
                THEN /\ job' = [job EXCEPT !.pc = "done"]
                     /\ UNCHANGED run
                ELSE /\ job' = [job EXCEPT !.pc = "awaiting", !.urls = collected.urls,
                                            !.current = 1, !.started = <<1>>]
                     /\ run' = [run EXCEPT ![1] = CallExtractPost(run[1], collected.urls[1])]
    /\ UNCHANGED <<config, discussions, remoteComments>>

JobResume_ContinuesAfterFailure ==
    /\ job.pc = "awaiting"
    /\ run[job.current].pc \in {"done", "failed"}
    /\ IF job.current < Len(job.urls)
       THEN LET next == job.current + 1
            IN  /\ job' = [job EXCEPT !.current = next, !.started = Append(@, next)]
                /\ run' = [run EXCEPT ![next] = CallExtractPost(run[next], job.urls[next])]
       ELSE /\ job' = [job EXCEPT !.pc = "done", !.output = Len(job.urls)]
            /\ UNCHANGED run
    /\ UNCHANGED <<config, discussions, remoteComments>>

\* The awaited generate() has settled: a rejection goes to the catch block
\* (setFailed), a result is logged and the loop goes on to the next url, up to
\* the await of its generate(); after the last url the output is set.
JobResume ==
    /\ job.pc = "awaiting"
    /\ run[job.current].pc \in {"done", "failed"}
    /\ IF run[job.current].pc = "failed"
       THEN /\ job' = SetFailed(job, run[job.current].error)
            /\ UNCHANGED run
       ELSE IF job.current < Len(job.urls)
       THEN LET next == job.current + 1
            IN  /\ job' = [job EXCEPT !.current = next, !.started = Append(@, next)]
                /\ run' = [run EXCEPT ![next] = CallExtractPost(run[next], job.urls[next])]
       ELSE /\ job' = [job EXCEPT !.pc = "done", !.output = Len(job.urls)]
            /\ UNCHANGED run
    /\ UNCHANGED <<config, discussions, remoteComments>>

\* The steps of the generate() calls of the job
JobRunStep ==
    \E r \in Runs :
        \/ ExtractReturn(r)
        \/ GenerateReturn(r)
        \/ SearchReturn(r)
        \/ RepoInfoReturn(r)
        \/ CreateReturn(r)
        \/ AddCommentReturn(r)
        \/ Reject(r)

NextAction == JobStart \/ JobResume \/ JobRunStep

Sites ==
    [url : SiteUrls, framework : {"jekyll", "hugo"}, pathPattern : {Undefined}]
        \union [url : {SiteUrl \o <<"/">>}, framework : {"custom"},
                 pathPattern : PathPatterns \union {Undefined, <<>>}]
        \union [url : {SiteUrl}, framework : {"gatsby"}, pathPattern : {Undefined}]

\* The configuration of a job that publishes one comment per post
JobConfigs(sites) ==
    [provider : [name : {"fake"}],
     personas : {<<[name |-> <<"A">>], [name |-> <<"B">>]>>},
     limits : [maxPersonas : {1}],
     github : [repo : {RepoGood}, discussionCategory : {CategoryBlog}],
     labeling : [prefix : {LabelPrefix}],
     token : {TRUE},
     site : sites]

\* A push of one file, under every site configuration
InitPaths ==
    /\ config \in JobConfigs(Sites)
    /\ run = [r \in Runs |-> InitRun]
    /\ discussions = <<>>
    /\ remoteComments = <<>>
    /\ job \in {[InitJob EXCEPT !.payload = <<f>>] : f \in PathFiles}

SpecPaths == InitPaths /\ [][NextAction]_vars

\* A push of up to MaxRuns files, or a blog-url input, with and without the
\* token and the site section, with one and with two comments per post
PushedFiles == {FileJekyllDated, FileJekyllPlain, FileOutsideBlog}
Payloads == UNION {[1..n -> PushedFiles] : n \in 0..MaxRuns}
Detected(payload) == SelectSeq(payload, IsBlogPost)

InitAction ==
    /\ config \in
           JobConfigs({[url |-> SiteUrl, framework |-> "jekyll", pathPattern |-> Undefined],
                       NoSite})
             \union {[c EXCEPT !.token = FALSE] :
                        c \in JobConfigs({[url |-> SiteUrl, framework |-> "jekyll",
                                           pathPattern |-> Undefined]})}
             \union {[c EXCEPT !.limits.maxPersonas = 2] :
                        c \in JobConfigs({[url |-> SiteUrl, framework |-> "jekyll",
                                           pathPattern |-> Undefined]})}
    /\ run = [r \in Runs |-> InitRun]
    /\ discussions = <<>>
    /\ remoteComments = <<>>
    /\ job \in {[InitJob EXCEPT !.payload = p] : p \in Payloads}
                 \union {[InitJob EXCEPT !.blogUrl = PostUrl]}

SpecAction == InitAction /\ [][NextAction]_vars

-----------------------------------------------------------------------------
(* Observations used by the properties *)

IsPrefix(s, t) == Len(s) <= Len(t) /\ SubSeq(t, 1, Len(s)) = s

\* The publisher operations generate() has called, by name
PubCallsOf(r, op) == SelectSeq(run[r].pubCalls, LAMBDA c : c.op = op)

\* The GraphQL requests a run has issued, by name
RequestNames(r) == [i \in DOMAIN run[r].calls |-> run[r].calls[i].op]

\* The requests findOrCreateDiscussion has issued
FindOrCreateRequests(r) ==
    SelectSeq(RequestNames(r), LAMBDA op : op # "addDiscussionComment")

\* The bodies a run has put on the remote repository, in posting order
PostedBy(r) ==
    LET mine == SelectSeq(remoteComments, LAMBDA c : c.by = r)
    IN  [i \in DOMAIN mine |-> mine[i].body]

FormattedComments(r) ==
    [i \in DOMAIN run[r].comments |-> run[r].comments[i].formattedComment]

DiscussionsTitled(title) == {i \in DOMAIN discussions : discussions[i].title = title}

\* C1: a dry run calls no publish operation, issues no remote request, leaves the
\* remote repository untouched, and returns discussionUrl = null.
C1_DryRunIsolation ==
    \A r \in Runs :
        run[r].dryRun =>
            /\ run[r].pubCalls = <<>>
            /\ run[r].calls = <<>>
            /\ \A i \in DOMAIN run[r].inflight :
                   run[r].inflight[i] \in {"extract", "generate"}
            /\ PostedBy(r) = <<>>
            /\ \A i \in DOMAIN discussions : discussions[i].by # r
            /\ run[r].pc = "done" =>
                   run[r].result.returned /\ run[r].result.discussionUrl = Null

C1_Witness ==
    \E r \in Runs :
        /\ run[r].dryRun
        /\ run[r].pc = "done"
        /\ Len(run[r].result.comments) = 2
        /\ config.token /\ ParseRepo(config.github.repo).ok

\* C2: comment i of a run is the comment generated for config.personas[i]; a
\* completed run returns them in that order, one for every persona below the
\* cap; addComment is called with them in that order and the remote
\* repository receives them in that order.
C2_CommentOrder ==
    \A r \in Runs :
        LET comments == run[r].comments
            adds == PubCallsOf(r, "addComment")
        IN  /\ Len(comments) <= Len(config.personas)
            /\ Len(run[r].genCalls) <= Len(config.personas)
            /\ \A i \in DOMAIN run[r].genCalls :
                   run[r].genCalls[i] = config.personas[i].name
            /\ \A i \in DOMAIN comments :
                   /\ comments[i].personaName = config.personas[i].name
                   /\ comments[i].comment = ProviderText(config.personas[i])
                   /\ comments[i].formattedComment =
                          formatComment(ProviderText(config.personas[i]),
                                        config.personas[i].name, config.labeling.prefix)
            /\ run[r].pc = "done" =>
                   /\ run[r].result.comments = comments
                   /\ \A i \in 1..MathMin(config.limits.maxPersonas, Len(config.personas)) :
                          i <= Len(comments)
            /\ Len(adds) <= Len(comments)
            /\ \A k \in DOMAIN adds : adds[k].arg = comments[k].formattedComment
            /\ IsPrefix(PostedBy(r), FormattedComments(r))

C2_Witness ==
    \E r \in Runs :
        /\ run[r].pc = "done"
        /\ ~run[r].dryRun
        /\ Len(run[r].result.comments) = 2
        /\ run[r].result.comments[1].personaName # run[r].result.comments[2].personaName
        /\ PostedBy(r) = FormattedComments(r)

\* findOrCreateDiscussion has returned a discussion to generate()
Resolved(r) == run[r].discussion # NoDiscussion

\* The search of run r has answered
SearchAnswered(r) ==
    /\ run[r].calls # <<>>
    /\ run[r].pc # "search"
    /\ \A i \in DOMAIN run[r].rejected : run[r].rejected[i] # "search"

\* The remote discussion a run holds
HeldBy(r) ==
    {i \in DOMAIN discussions :
        run[r].discussion = [id |-> discussions[i].id, url |-> discussions[i].url]}

\* C3: when calls of findOrCreateDiscussion do not overlap, the repository
\* never holds two discussions with one title, every call returns the one
\* discussion with its title, and of the calls for one title at most one
\* created it: the others returned what that one created.
C3_OneDiscussionPerTitle ==
    /\ \A i, j \in DOMAIN discussions :
           discussions[i].title = discussions[j].title => i = j
    /\ \A r \in Runs :
           Resolved(r) =>
               /\ HeldBy(r) # {}
               /\ HeldBy(r) = DiscussionsTitled(run[r].post.title)
    /\ \A r1, r2 \in Runs :
           (r1 # r2 /\ Resolved(r1) /\ Resolved(r2)
                    /\ run[r1].post.title = run[r2].post.title) =>
               /\ run[r1].discussion = run[r2].discussion
               /\ run[r1].found \/ run[r2].found

C3_Witness ==
    \E r1, r2 \in Runs :
        /\ r1 # r2
        /\ run[r1].post.title = run[r2].post.title
        /\ Resolved(r1) /\ ~run[r1].found
        /\ Resolved(r2) /\ run[r2].found
        /\ \E i \in HeldBy(r2) : discussions[i].by = r1

\* C4: nothing makes a call of findOrCreateDiscussion wait for another one,
\* and two calls that both missed the title in their search both create a
\* discussion: the repository then holds two discussions with that title.
C4_NoLocking ==
    /\ \A r \in Runs :
           /\ run[r].pc = "search" => ENABLED SearchReturn(r)
           /\ run[r].pc = "repoInfo" => ENABLED RepoInfoReturn(r)
           /\ run[r].pc = "create" => ENABLED CreateReturn(r)
    /\ \A r1, r2 \in Runs :
           (r1 # r2 /\ Resolved(r1) /\ Resolved(r2)
                    /\ ~run[r1].found /\ ~run[r2].found
                    /\ run[r1].post.title = run[r2].post.title) =>
               /\ run[r1].discussion.id # run[r2].discussion.id
               /\ Cardinality(DiscussionsTitled(run[r1].post.title)) >= 2

C4_Witness ==
    \E i, j \in DOMAIN discussions :
        /\ i # j
        /\ discussions[i].title = discussions[j].title
        /\ discussions[i].by # 0 /\ discussions[j].by # 0
        /\ discussions[i].by # discussions[j].by

\* C5: when the repository holds a discussion with exactly the requested
\* title, findOrCreateDiscussion issues the search and nothing else, and
\* returns the id and url of that discussion.
C5_ReuseExisting ==
    \A r \in Runs :
        /\ (SearchAnswered(r) /\ \E i \in DiscussionsTitled(run[r].post.title) :
                                     discussions[i].by # r) =>
               /\ run[r].found
               /\ Resolved(r)
        /\ run[r].found =>
               /\ FindOrCreateRequests(r) = <<"search">>
               /\ Len(PubCallsOf(r, "findOrCreateDiscussion")) = 1
               /\ \E i \in HeldBy(r) :
                      discussions[i].title = run[r].post.title /\ discussions[i].by # r

C5_Witness ==
    \E r \in Runs :
        /\ run[r].found
        /\ run[r].pc = "done"
        /\ Len(PostedBy(r)) = 2

\* C6: when no discussion has exactly the requested title, findOrCreateDiscussion
\* issues the search, the repository query and the create mutation, in that
\* order and nothing else, and returns the id and url of the discussion it
\* created.
C6_CreateWhenMissing ==
    \A r \in Runs :
        /\ ~run[r].found =>
               IsPrefix(FindOrCreateRequests(r),
                        <<"search", "repository", "createDiscussion">>)
        /\ (SearchAnswered(r) /\ \A i \in DiscussionsTitled(run[r].post.title) :
                                     discussions[i].by = r) =>
               ~run[r].found
        /\ (Resolved(r) /\ ~run[r].found) =>
               /\ FindOrCreateRequests(r) = <<"search", "repository", "createDiscussion">>
               /\ HeldBy(r) = {i \in DOMAIN discussions : discussions[i].by = r}
               /\ Cardinality(HeldBy(r)) = 1
               /\ \A i \in HeldBy(r) : discussions[i].title = run[r].post.title

C6_Witness ==
    \E r \in Runs :
        /\ Resolved(r) /\ ~run[r].found
        /\ run[r].pc = "done"
        /\ \E i \in DOMAIN discussions : discussions[i].by = 0

AddCommentRejected(r) == \E i \in DOMAIN run[r].rejected : run[r].rejected[i] = "addComment"

\* C7: when addComment rejects for comment k (counted from 0), the run has
\* failed without a result, the k comments posted before are on the remote
\* repository and stay there, and addComment was called k + 1 times: never
\* for a comment after k.
C7_PartialPublish ==
    \A r \in Runs :
        AddCommentRejected(r) =>
            /\ run[r].pc = "failed"
            /\ run[r].error = "addComment"
            /\ ~run[r].result.returned
            /\ run[r].inflight = <<>>
            /\ run[r].posted < Len(run[r].comments)
            /\ PostedBy(r) = SubSeq(FormattedComments(r), 1, run[r].posted)
            /\ Len(PubCallsOf(r, "addComment")) = run[r].posted + 1

C7_Witness ==
    \E r, q \in Runs :
        /\ AddCommentRejected(r)
        /\ run[r].posted = 1
        /\ Len(run[r].comments) = 2
        /\ q # r
        /\ run[q].pc = "done"
        /\ remoteComments[Len(remoteComments)].by = q

\* C8: a run has at most one request outstanding, the one its control is
\* waiting for; it has none before it starts and after it has ended.
C8_OneOutstanding ==
    \A r \in Runs :
        /\ Len(run[r].inflight) <= 1
        /\ run[r].inflight = <<>> <=> run[r].pc \in {"init", "done", "failed"}
        /\ run[r].inflight # <<>> => Head(run[r].inflight) = run[r].pc

C8_Witness ==
    \E r \in Runs :
        /\ run[r].inflight = <<"addComment">>
        /\ run[r].posted = 1
        /\ Len(run[r].genCalls) = 2
        /\ "extract" \notin {run[r].rejected[i] : i \in DOMAIN run[r].rejected}
        /\ run[r].post.url = PostUrl

\* C9: a returned result has discussionUrl = null exactly when the run was a
\* dry run; otherwise it is the url of the discussion findOrCreateDiscussion
\* returned, a discussion of the remote repository.
C9_DiscussionUrl ==
    \A r \in Runs :
        run[r].pc = "done" =>
            /\ run[r].result.returned
            /\ run[r].result.discussionUrl = Null <=> run[r].dryRun
            /\ ~run[r].dryRun =>
                   /\ Resolved(r)
                   /\ run[r].result.discussionUrl = run[r].discussion.url
                   /\ \E i \in HeldBy(r) :
                          discussions[i].url = run[r].result.discussionUrl

C9_Witness ==
    \E r \in Runs :
        /\ run[r].pc = "done"
        /\ ~run[r].dryRun
        /\ run[r].result.discussionUrl # Null

\* C10: the personas a run generates for are the first
\* min(maxPersonas, len(personas)) entries of config.personas, in order.
C10_FirstMinPersonas ==
    \A r \in Runs :
        LET n == MathMin(config.limits.maxPersonas, Len(config.personas))
            expected == [i \in 1..n |-> config.personas[i].name]
        IN  /\ IsPrefix(run[r].genCalls, expected)
            /\ run[r].pc = "done" => run[r].genCalls = expected

\* C11: with maxPersonas <= 0 (zero or negative) no persona is selected, no
\* text-generation call is made, and the run does not fail because of it: it
\* goes on to the publishing step with no comments.
C11_NonPositiveCapSelectsNone ==
    \A r \in Runs :
        (config.limits.maxPersonas <= 0 /\ run[r].pc # "init") =>
            /\ SelectPersonas(config) = <<>>
            /\ run[r].genCalls = <<>>
            /\ run[r].comments = <<>>
            /\ run[r].pc # "generate"
            /\ run[r].error # "generate"

\* The segments of "owner/name": exactly two, neither empty
WellFormedRepo(repo) ==
    LET parts == Split(repo, "/")
    IN  Len(parts) = 2 /\ parts[1] # <<>> /\ parts[2] # <<>>

\* The run has left the generation loop without a failure or a rejection
PastGeneration(r) ==
    /\ run[r].pc \notin {"init", "extract", "generate"}
    /\ run[r].error \notin {"extract", "generate"}

\* C12: a non-dry run fails with the configuration error whenever
\* config.github.repo does not split on "/" into exactly two non-empty
\* segments, and calls the publisher only when it does.
C12_RepoValidation ==
    \A r \in Runs :
        (~run[r].dryRun /\ PastGeneration(r)) =>
            /\ ~WellFormedRepo(config.github.repo) =>
                   /\ run[r].pc = "failed"
                   /\ run[r].error = "InvalidRepo"
                   /\ run[r].pubCalls = <<>>
            /\ WellFormedRepo(config.github.repo) =>
                   /\ run[r].error # "InvalidRepo"
                   /\ run[r].pubCalls # <<>>

\* The repository query of run r has answered
RepoInfoAnswered(r) ==
    /\ \E i \in DOMAIN run[r].calls : run[r].calls[i].op = "repository"
    /\ run[r].pc # "repoInfo"
    /\ \A i \in DOMAIN run[r].rejected : run[r].rejected[i] # "repoInfo"

\* The remote categories whose name is the configured one, letter case ignored
CategoriesNamed(categoryName) ==
    {i \in DOMAIN RepoCategories :
        ToLowerCase(RepoCategories[i].name) = ToLowerCase(categoryName)}

CreateRequests(r) ==
    {i \in DOMAIN run[r].calls : run[r].calls[i].op = "createDiscussion"}

\* C13: getRepoInfo returns the repository id and the id of a category whose
\* name is the configured name up to letter case (they go into the create
\* mutation), and fails with CategoryNotFound, naming the configured value,
\* exactly when no category matches up to letter case.
C13_CategoryMatch ==
    \A r \in Runs :
        RepoInfoAnswered(r) =>
            LET wanted == config.github.discussionCategory
            IN  /\ CategoriesNamed(wanted) # {} =>
                       /\ run[r].error # "CategoryNotFound"
                       /\ CreateRequests(r) # {}
                       /\ \A i \in CreateRequests(r) :
                              /\ run[r].calls[i].target.repositoryId = RepoId
                              /\ \E c \in CategoriesNamed(wanted) :
                                     run[r].calls[i].target.categoryId = RepoCategories[c].id
                /\ CategoriesNamed(wanted) = {} =>
                       /\ run[r].pc = "failed"
                       /\ run[r].error = "CategoryNotFound"
                       /\ run[r].errorValue = wanted
                       /\ CreateRequests(r) = {}
                /\ run[r].error = "CategoryNotFound" => CategoriesNamed(wanted) = {}

C13_Witness ==
    \E r \in Runs :
        /\ RepoInfoAnswered(r)
        /\ run[r].pc = "done"
        /\ CategoriesNamed(config.github.discussionCategory) # {}
        /\ \A c \in DOMAIN RepoCategories :
               RepoCategories[c].name # config.github.discussionCategory
        /\ \E i \in CreateRequests(r) :
               run[r].calls[i].target = [repositoryId |-> RepoId, categoryId |-> <<"DC_2">>]

\* The nodes the search of run r was answered with: the discussions of other
\* authors whose title contains the requested one
NodesSeenBy(r) ==
    SearchResults(SelectSeq(discussions, LAMBDA d : d.by # r), run[r].post.title)

ExactNodes(r) ==
    {i \in DOMAIN NodesSeenBy(r) : NodesSeenBy(r)[i].title = run[r].post.title}

\* C14: findDiscussion returns the first search result whose title is exactly
\* the requested title, and null when no result has exactly that title, also
\* when the results hold near-matches (other letter case, more words, trailing
\* whitespace) or are empty: the caller then goes on to create a discussion.
C14_ExactTitleMatch ==
    \A r \in Runs :
        SearchAnswered(r) =>
            /\ ExactNodes(r) # {} =>
                   /\ run[r].found
                   /\ \E i \in ExactNodes(r) :
                          /\ \A k \in ExactNodes(r) : i <= k
                          /\ run[r].discussion = [id |-> NodesSeenBy(r)[i].id,
                                                  url |-> NodesSeenBy(r)[i].url]
            /\ ExactNodes(r) = {} =>
                   /\ ~run[r].found
                   /\ \A i \in DOMAIN NodesSeenBy(r) :
                          run[r].discussion.id # NodesSeenBy(r)[i].id
                   /\ Len(run[r].calls) >= 2 /\ run[r].calls[2].op = "repository"

C14_Witness ==
    \E r \in Runs :
        /\ SearchAnswered(r)
        /\ run[r].found
        /\ Cardinality(ExactNodes(r)) = 2
        /\ 1 \notin ExactNodes(r)
        /\ run[r].discussion.id = DiscussionId(2)

\* C15: generateComment of the OpenAI, Claude and Ollama providers never
\* returns the empty string, so no generated comment has an empty raw text.
C15_NoEmptyComment ==
    \A r \in Runs :
        config.provider.name \in RealProviders =>
            \A i \in DOMAIN run[r].comments : run[r].comments[i].comment # <<>>

\* The run has issued no network call: no extraction, no text generation, no
\* request to the remote repository
NoNetworkCall(r) ==
    /\ run[r].inflight = <<>>
    /\ run[r].rejected = <<>>
    /\ run[r].post.url # PostUrl
    /\ run[r].genCalls = <<>>
    /\ run[r].calls = <<>>

\* C16: a run whose config.github.repo is malformed ends with the
\* configuration error before it has issued any network call.
C16_ConfigErrorBeforeNetwork ==
    \A r \in Runs :
        (~WellFormedRepo(config.github.repo) /\ run[r].pc # "init") =>
            /\ run[r].pc = "failed"
            /\ run[r].error = "InvalidRepo"
            /\ NoNetworkCall(r)

\* C17: without the publishing credential a non-dry run (its configuration
\* otherwise valid) ends with the authentication error before it has issued
\* any network call; no publish request reaches the remote repository.
C17_AuthFailFast ==
    \A r \in Runs :
        (~config.token /\ WellFormedRepo(config.github.repo)
                       /\ ~run[r].dryRun /\ run[r].pc # "init") =>
            /\ run[r].pc = "failed"
            /\ run[r].error = "AuthError"
            /\ NoNetworkCall(r)
            /\ PostedBy(r) = <<>>

\* C18: the formatted comment is exactly labelPrefix, " · Persona: ",
\* personaName, a blank line and the raw text, the raw text as the provider
\* returned it, blanks around it included.
C18_FormatExact ==
    \A r \in Runs :
        \A i \in DOMAIN run[r].comments :
            LET c == run[r].comments[i]
                n == Len(c.formattedComment)
            IN  /\ c.formattedComment =
                       config.labeling.prefix \o <<" · Persona: ">> \o c.personaName
                           \o <<"\n\n">> \o c.comment
                /\ n = Len(config.labeling.prefix) + Len(c.personaName) + Len(c.comment) + 2
                /\ SubSeq(c.formattedComment, n - Len(c.comment) + 1, n) = c.comment

C18_Witness ==
    \E r \in Runs :
        /\ run[r].pc = "done"
        /\ Len(run[r].comments) = 2
        /\ run[r].comments[1].comment = <<" ", "o", "k", " ">>
        /\ run[r].comments[2].comment = <<"o", "k">>
        /\ config.labeling.prefix = LabelPrefix

\* The bodies of the addComment calls of a run
AddCommentBodies(r) ==
    LET adds == PubCallsOf(r, "addComment")
    IN  {adds[k].arg : k \in DOMAIN adds}

\* The text is the formatted text of a comment the run generated: it starts
\* with the label prefix and the persona marker
Labeled(r, text) ==
    \E i \in DOMAIN run[r].comments :
        /\ text = run[r].comments[i].formattedComment
        /\ IsPrefix(config.labeling.prefix \o <<" · Persona: ">>
                        \o run[r].comments[i].personaName \o <<"\n\n">>, text)
        /\ text # run[r].comments[i].comment

\* C19: every body passed to addComment, and every comment a run puts on the
\* remote repository, is the formatted text of one of the run's generated
\* comments: label prefix, persona marker, then the text; never the raw text.
C19_OnlyLabeledPosted ==
    \A r \in Runs :
        /\ \A body \in AddCommentBodies(r) : Labeled(r, body)
        /\ \A i \in DOMAIN PostedBy(r) : Labeled(r, PostedBy(r)[i])
        /\ \A i \in DOMAIN run[r].calls :
               run[r].calls[i].op = "addDiscussionComment" => Labeled(r, run[r].calls[i].arg)

C19_Witness ==
    \E r \in Runs :
        /\ Len(PostedBy(r)) = 2
        /\ Cardinality(AddCommentBodies(r)) = 2
        /\ run[r].pc = "done"

\* The comments of run r on the remote repository, by the discussion they
\* were added to
PostedTo(r, discussionId) ==
    {i \in DOMAIN remoteComments :
        remoteComments[i].by = r /\ remoteComments[i].discussionId = discussionId}

\* C20: a non-dry run that completes has called findOrCreateDiscussion once
\* and addComment once per generated comment, as many as personas were
\* selected, each with the id of the discussion findOrCreateDiscussion
\* returned.
C20_PublishCalls ==
    \A r \in Runs :
        (run[r].pc = "done" /\ ~run[r].dryRun) =>
            LET adds == PubCallsOf(r, "addComment")
            IN  /\ Len(PubCallsOf(r, "findOrCreateDiscussion")) = 1
                /\ run[r].pubCalls[1].op = "findOrCreateDiscussion"
                /\ Len(adds) = Len(run[r].result.comments)
                /\ Len(adds) = Len(SelectPersonas(config))
                /\ Resolved(r)
                /\ \A k \in DOMAIN adds : adds[k].target = run[r].discussion.id
                /\ Cardinality(PostedTo(r, run[r].discussion.id)) = Len(adds)
                /\ Len(PostedBy(r)) = Len(adds)

C20_Witness ==
    \E r \in Runs :
        /\ run[r].pc = "done"
        /\ ~run[r].dryRun
        /\ Len(PubCallsOf(r, "addComment")) = 2
        /\ Len(config.personas) = 2
        /\ config.limits.maxPersonas = 3

\* The errors the publisher throws by itself
PublisherErrors == {"AuthError", "CategoryNotFound"}

\* How often a run has issued the operation that rejected
TimesIssued(r, op) ==
    CASE op = "extract" -> 1
      [] op = "generate" -> Len(run[r].genCalls)
      [] op = "search" -> Cardinality({i \in DOMAIN run[r].calls : run[r].calls[i].op = "search"})
      [] op = "repoInfo" ->
             Cardinality({i \in DOMAIN run[r].calls : run[r].calls[i].op = "repository"})
      [] op = "create" -> Cardinality(CreateRequests(r))
      [] op = "addComment" -> Len(PubCallsOf(r, "addComment"))

\* C21: an error of content extraction, text generation, findOrCreateDiscussion
\* or addComment ends the run with that error: the run returns no result,
\* issues nothing after it (no retry), and holds no comment or discussion it
\* did not get from a successful call (no default value).
C21_ErrorsPropagate ==
    \A r \in Runs :
        /\ run[r].rejected # <<>> =>
               LET op == run[r].rejected[1]
               IN  /\ Len(run[r].rejected) = 1
                   /\ run[r].pc = "failed"
                   /\ run[r].error = op
                   /\ ~run[r].result.returned
                   /\ run[r].inflight = <<>>
                   /\ op = "generate" => Len(run[r].comments) = Len(run[r].genCalls) - 1
                   /\ op = "addComment" =>
                          Len(PostedBy(r)) = Len(PubCallsOf(r, "addComment")) - 1
                   /\ op \in {"search", "repoInfo", "create"} =>
                          /\ ~Resolved(r)
                          /\ PubCallsOf(r, "addComment") = <<>>
                   /\ op = "extract" => run[r].post.title = Null /\ run[r].genCalls = <<>>
                   /\ TimesIssued(r, op) <= 1 \/ op \in {"generate", "addComment"}
        /\ run[r].error \in PublisherErrors =>
               /\ run[r].pc = "failed"
               /\ ~run[r].result.returned
               /\ ~Resolved(r)
               /\ PubCallsOf(r, "addComment") = <<>>
        /\ run[r].pc = "failed" <=> run[r].error # "none"
        /\ run[r].result.returned => run[r].pc = "done" /\ run[r].rejected = <<>>
        /\ Len(run[r].genCalls) <= Len(SelectPersonas(config))

C21_Witness ==
    \E r \in Runs :
        /\ run[r].rejected = <<"generate">>
        /\ Len(run[r].comments) = 1
        /\ Len(run[r].genCalls) = 2
        /\ run[r].pc = "failed"
        /\ ~run[r].dryRun

\* The segments of a string joined again with a separator between them
RECURSIVE Join(_, _)
Join(parts, sep) ==
    IF parts = <<>> THEN <<>>
    ELSE IF Len(parts) = 1 THEN parts[1]
    ELSE parts[1] \o <<sep>> \o Join(Tail(parts), sep)

\* The file name of a path: no directories, no extension
FileNameOf(path) ==
    LET segments == Split(path, "/")
        last == segments[Len(segments)]
        dotted == Split(last, ".")
    IN  IF Len(dotted) = 1 THEN last ELSE Join(SubSeq(dotted, 1, Len(dotted) - 1), ".")

AllDigits(s, n) == Len(s) = n /\ \A i \in DOMAIN s : IsDigit(s[i])

\* A file name of the form YYYY-MM-DD-<slug>
DatePrefixed(name) ==
    LET parts == Split(name, "-")
    IN  /\ Len(parts) >= 4
        /\ AllDigits(parts[1], 4) /\ AllDigits(parts[2], 2) /\ AllDigits(parts[3], 2)
        /\ Join(SubSeq(parts, 4, Len(parts)), "-") # <<>>

SlugOf(name) == LET parts == Split(name, "-") IN Join(SubSeq(parts, 4, Len(parts)), "-")
DatePartOf(name, i) == Split(name, "-")[i]

\* site.url without one trailing slash
BaseUrlOf(url) == IF url[Len(url)] = "/" THEN SubSeq(url, 1, Len(url) - 1) ELSE url

\* The job has collected the urls of a push
UrlsCollected ==
    job.pc \in {"awaiting", "done"} /\ job.blogUrl = Null /\ job.urls # <<>>

\* C22: with the jekyll mapping every blog post of the push gets a url, without
\* an error: baseUrl/YYYY/MM/DD/<slug>/ when its file name (no directory, no
\* extension) is YYYY-MM-DD-<slug>, baseUrl/<filename>/ otherwise; baseUrl is
\* site.url less one trailing slash.
C22_JekyllMapping ==
    (config.site.framework = "jekyll" /\ job.pc # "init") =>
        /\ job.error # "PathError"
        /\ Len(job.urls) = Len(Detected(job.payload))
        /\ \A i \in DOMAIN job.urls :
               LET name == FileNameOf(Detected(job.payload)[i])
                   base == BaseUrlOf(config.site.url)
               IN  job.urls[i] =
                       IF DatePrefixed(name)
                       THEN base \o <<"/">> \o DatePartOf(name, 1) \o <<"/">>
                                \o DatePartOf(name, 2) \o <<"/">> \o DatePartOf(name, 3)
                                \o <<"/">> \o SlugOf(name) \o <<"/">>
                       ELSE base \o <<"/">> \o name \o <<"/">>

C22_Witness ==
    /\ UrlsCollected
    /\ config.site.framework = "jekyll"
    /\ config.site.url = SiteUrl \o <<"/">>
    /\ job.payload = <<FileJekyllDated>>
    /\ job.urls = <<SiteUrl \o <<"/", "2", "0", "2", "4", "/", "0", "6", "/", "1", "5", "/", "h", "i", "/">>>>

\* A path segment without its extension
WithoutExtension(segment) ==
    LET dotted == Split(segment, ".")
    IN  IF Len(dotted) = 1 THEN segment ELSE Join(SubSeq(dotted, 1, Len(dotted) - 1), ".")

\* The path less a leading content/ segment, less the file extension, and
\* less a final /index
HugoRemainder(path) ==
    LET segments == Split(path, "/")
        inside == IF Len(segments) > 1 /\ segments[1] = <<"c", "o", "n", "t", "e", "n", "t">> THEN Tail(segments) ELSE segments
        named == [i \in DOMAIN inside |->
                     IF i = Len(inside) THEN WithoutExtension(inside[i]) ELSE inside[i]]
        kept == IF Len(named) > 1 /\ named[Len(named)] = <<"i", "n", "d", "e", "x">>
                THEN SubSeq(named, 1, Len(named) - 1) ELSE named
    IN  Join(kept, "/")

\* C23: with the hugo mapping every blog post of the push gets the url
\* baseUrl/<remainder>/, the remainder being its path less a leading content/,
\* less the file extension and, if it then ends in /index, less that suffix.
C23_HugoMapping ==
    (config.site.framework = "hugo" /\ job.pc # "init") =>
        /\ job.error # "PathError"
        /\ Len(job.urls) = Len(Detected(job.payload))
        /\ \A i \in DOMAIN job.urls :
               job.urls[i] = BaseUrlOf(config.site.url) \o <<"/">>
                                 \o HugoRemainder(Detected(job.payload)[i]) \o <<"/">>

C23_Witness ==
    /\ UrlsCollected
    /\ config.site.framework = "hugo"
    /\ job.payload = <<FileHugoIndex>>
    /\ job.urls = <<SiteUrl \o <<"/", "p", "o", "s", "t", "s", "/">>>>

\* The values of the placeholders for a file: date parts and trailing slug of
\* a date-prefixed file name, else no date parts and the whole file name
PlaceholderValues(path) ==
    LET name == FileNameOf(path)
        dated == DatePrefixed(name)
    IN  <<[key |-> PlaceholderSlug, value |-> IF dated THEN SlugOf(name) ELSE name],
          [key |-> PlaceholderFilename, value |-> name],
          [key |-> PlaceholderYear, value |-> IF dated THEN DatePartOf(name, 1) ELSE <<>>],
          [key |-> PlaceholderMonth, value |-> IF dated THEN DatePartOf(name, 2) ELSE <<>>],
          [key |-> PlaceholderDay, value |-> IF dated THEN DatePartOf(name, 3) ELSE <<>>]>>

\* The pattern with every occurrence of every placeholder replaced by its value
RECURSIVE SubstituteAll(_, _)
SubstituteAll(pattern, values) ==
    IF pattern = <<>> THEN <<>>
    ELSE LET here == {i \in DOMAIN values : StartsWith(pattern, values[i].key)}
         IN  IF here = {}
             THEN <<Head(pattern)>> \o SubstituteAll(Tail(pattern), values)
             ELSE LET i == CHOOSE j \in here : TRUE
                  IN  values[i].value
                          \o SubstituteAll(DropFirst(pattern, Len(values[i].key)), values)

\* C24: with the custom mapping the url of every blog post of the push is
\* baseUrl followed by the pattern with every occurrence of {slug},
\* {filename}, {year}, {month} and {day} replaced by its value: no placeholder
\* is left in it.
C24_CustomSubstitution ==
    (config.site.framework = "custom" /\ ~Falsy(config.site.pathPattern)
                                      /\ job.pc # "init") =>
        /\ job.error # "PathError"
        /\ Len(job.urls) = Len(Detected(job.payload))
        /\ \A i \in DOMAIN job.urls :
               LET values == PlaceholderValues(Detected(job.payload)[i])
               IN  /\ job.urls[i] = BaseUrlOf(config.site.url)
                                        \o SubstituteAll(config.site.pathPattern, values)
                   /\ \A v \in DOMAIN values : Occurrences(job.urls[i], values[v].key) = {}

\* The run has called the publisher or sent something to the remote repository
PublishBegun(r) ==
    \/ run[r].pubCalls # <<>>
    \/ run[r].calls # <<>>
    \/ PostedBy(r) # <<>>
    \/ \E i \in DOMAIN discussions : discussions[i].by = r

GenerationRejected(r) ==
    \E i \in DOMAIN run[r].rejected : run[r].rejected[i] = "generate"

\* C25: when a run issues its first publish call, every text-generation call
\* of the run has completed, one per selected persona; a run whose text
\* generation failed has made no publish call: no discussion found or
\* created, no comment posted.
C25_GenerateBeforePublish ==
    \A r \in Runs :
        /\ PublishBegun(r) =>
               /\ Len(run[r].genCalls) = Len(SelectPersonas(config))
               /\ Len(run[r].comments) = Len(run[r].genCalls)
               /\ ~GenerationRejected(r)
               /\ \A i \in DOMAIN run[r].inflight : run[r].inflight[i] # "generate"
        /\ (GenerationRejected(r) \/ run[r].pc = "generate") =>
               /\ ~PublishBegun(r)
               /\ ~Resolved(r)
               /\ run[r].discussionUrl = Null

C25_Witness ==
    \E r \in Runs :
        /\ GenerationRejected(r)
        /\ Len(run[r].comments) = 1
        /\ ~run[r].dryRun
        /\ config.token /\ ParseRepo(config.github.repo).ok
        /\ discussions # <<>>

\* The comments of a discussion, in the order the remote repository holds them
CommentsOn(discussionId) ==
    SelectSeq(remoteComments, LAMBDA c : c.discussionId = discussionId)

\* The bodies run r has added to a discussion, in that order
BodiesOn(r, discussionId) ==
    LET mine == SelectSeq(CommentsOn(discussionId), LAMBDA c : c.by = r)
    IN  [i \in DOMAIN mine |-> mine[i].body]

\* C26: when runs post concurrently, also to one discussion, the comments of
\* each run appear in the discussion in the run's persona order: the i-th
\* comment a run has added is the one of config.personas[i], whatever other
\* runs added in between.
C26_PerRunOrder ==
    \A r \in Runs :
        /\ \A i \in DOMAIN remoteComments :
               remoteComments[i].by = r => remoteComments[i].discussionId = run[r].discussion.id
        /\ LET bodies == BodiesOn(r, run[r].discussion.id)
           IN  /\ IsPrefix(bodies, FormattedComments(r))
               /\ Len(bodies) = run[r].posted
               /\ \A i \in DOMAIN bodies :
                      bodies[i] = formatComment(ProviderText(config.personas[i]),
                                                config.personas[i].name,
                                                config.labeling.prefix)

C26_Witness ==
    \E r1, r2 \in Runs :
        /\ r1 # r2
        /\ run[r1].discussion.id = run[r2].discussion.id
        /\ LET all == CommentsOn(run[r1].discussion.id)
           IN  /\ Len(all) = 4
               /\ all[1].by = r1 /\ all[2].by = r2 /\ all[3].by = r1 /\ all[4].by = r2
               /\ all[1].body # all[3].body

\* findOrCreateDiscussion of run r found no discussion and went on to create one
NeedsCreate(r) ==
    /\ ~run[r].dryRun
    /\ \E i \in DOMAIN run[r].calls : run[r].calls[i].op = "repository"

\* C27: a run that has to create the discussion while no category has the
\* configured name (letter case ignored) never returns: once the repository
\* query has answered it has failed with CategoryNotFound; createDiscussion
\* and addComment are never called, so the repository holds no discussion and
\* no comment of that run.
C27_NoCategoryNoPublication ==
    \A r \in Runs :
        (NeedsCreate(r) /\ CategoriesNamed(config.github.discussionCategory) = {}) =>
            /\ run[r].pc \in {"repoInfo", "failed"}
            /\ RepoInfoAnswered(r) => run[r].pc = "failed" /\ run[r].error = "CategoryNotFound"
            /\ CreateRequests(r) = {}
            /\ PubCallsOf(r, "addComment") = <<>>
            /\ \A i \in DOMAIN run[r].calls : run[r].calls[i].op # "addDiscussionComment"
            /\ \A i \in DOMAIN discussions : discussions[i].by # r
            /\ PostedBy(r) = <<>>
            /\ ~Resolved(r)
            /\ ~run[r].result.returned

C27_Witness ==
    \E r \in Runs :
        /\ NeedsCreate(r)
        /\ CategoriesNamed(config.github.discussionCategory) = {}
        /\ RepoInfoAnswered(r)
        /\ run[r].error = "CategoryNotFound"
        /\ Len(run[r].comments) = 2
        /\ DiscussionsTitled(run[r].post.title) = {}

\* The publishing runs for a title that have returned
CompletedFor(title) ==
    {r \in Runs : ~run[r].dryRun /\ run[r].pc = "done" /\ run[r].post.title = title}

\* The other runs for a title that have posted something
PostingFor(title) ==
    {r \in Runs \ CompletedFor(title) : run[r].post.title = title /\ PostedBy(r) # <<>>}

\* C28: after n publishing runs for one title whose calls of
\* findOrCreateDiscussion did not overlap, with k selected personas, the
\* repository holds exactly one discussion with that title; each of the n runs
\* has its k comments on it, whether it created or found the discussion, and
\* the discussion holds n * k comments when no other run has posted to it.
C28_OneDiscussionManyComments ==
    \A title \in Titles :
        LET n == Cardinality(CompletedFor(title))
            k == Len(SelectPersonas(config))
        IN  n > 0 =>
                /\ Cardinality(DiscussionsTitled(title)) = 1
                /\ \A i \in DiscussionsTitled(title) :
                       /\ \A r \in CompletedFor(title) :
                              /\ BodiesOn(r, discussions[i].id) = FormattedComments(r)
                              /\ Len(BodiesOn(r, discussions[i].id)) = k
                       /\ PostingFor(title) = {} =>
                              Len(CommentsOn(discussions[i].id)) = n * k

C28_Witness ==
    \E title \in Titles :
        /\ Cardinality(CompletedFor(title)) = 2
        /\ Len(SelectPersonas(config)) = 2
        /\ \E i \in DiscussionsTitled(title) :
               /\ discussions[i].by # 0
               /\ Len(CommentsOn(discussions[i].id)) = 4
               /\ \E r \in CompletedFor(title) : run[r].found

\* C29: a publishing run with no selected persona (maxPersonas = 0, or no
\* persona configured) generates nothing and posts nothing, calls
\* findOrCreateDiscussion at most once, and when it returns it has called it
\* exactly once and returns the url of the discussion with an empty list of
\* comments.
C29_EmptySelectionStillResolves ==
    \A r \in Runs :
        (run[r].pc # "init" /\ ~run[r].dryRun /\ SelectPersonas(config) = <<>>) =>
            /\ run[r].genCalls = <<>>
            /\ PubCallsOf(r, "addComment") = <<>>
            /\ PostedBy(r) = <<>>
            /\ Len(PubCallsOf(r, "findOrCreateDiscussion")) <= 1
            /\ run[r].pc = "done" =>
                   /\ Len(PubCallsOf(r, "findOrCreateDiscussion")) = 1
                   /\ Resolved(r)
                   /\ HeldBy(r) # {}
                   /\ run[r].result.returned
                   /\ run[r].result.discussionUrl # Null
                   /\ run[r].result.discussionUrl = run[r].discussion.url
                   /\ run[r].result.comments = <<>>

C29_Witness ==
    \E r \in Runs :
        /\ run[r].pc = "done" /\ ~run[r].dryRun
        /\ config.personas # <<>>
        /\ config.limits.maxPersonas = 0
        /\ run[r].result.discussionUrl # Null
        /\ run[r].result.comments = <<>>
        /\ \E i \in HeldBy(r) : discussions[i].by = r

\* The urls of the detected items, in detection order
DetectedUrls ==
    IF job.blogUrl # Null THEN <<job.blogUrl>>
    ELSE LET files == Detected(job.payload)
         IN  [i \in DOMAIN files |-> filePathToUrl(files[i], config.site).url]

\* generate() of item r is in progress
InProgress(r) == run[r].pc \notin {"init", "done", "failed"}

\* C30: the action calls generate() for the detected items one at a time in
\* detection order: item i is started only when every item before it has
\* returned, and at most one generate() is in progress. The first failed
\* generate() fails the job with its error: no later item is started, the job
\* never completes, and what the earlier items published is still on the
\* repository.
C30_SequentialFailFast ==
    /\ job.started = [i \in 1..Len(job.started) |-> i]
    /\ \A r \in Runs : run[r].pc # "init" <=> r \in 1..Len(job.started)
    /\ \A r \in Runs :
           run[r].pc # "init" =>
               /\ job.urls = DetectedUrls
               /\ run[r].post.url = DetectedUrls[r]
               /\ \A q \in 1..(r - 1) : run[q].pc = "done"
    /\ \A r \in Runs : InProgress(r) => job.pc = "awaiting" /\ r = job.current
    /\ Cardinality({r \in Runs : InProgress(r)}) <= 1
    /\ \A r \in Runs :
           run[r].pc = "failed" =>
               /\ job.pc \in {"awaiting", "failed"}
               /\ job.current = r
               /\ \A q \in Runs : q > r => run[q] = InitRun
               /\ job.pc = "failed" => job.error = run[r].error
               /\ job.output = Null
    /\ \A r \in Runs :
           (run[r].pc = "done" /\ ~run[r].dryRun) => PostedBy(r) = FormattedComments(r)
    /\ job.pc = "done" =>
           /\ \A r \in 1..Len(job.urls) : run[r].pc = "done"
           /\ job.urls = <<>> \/ job.output = Len(job.urls)

C30_Witness ==
    /\ job.pc = "failed"
    /\ Len(DetectedUrls) = 2
    /\ job.started = <<1>>
    /\ run[1].pc = "failed"
    /\ PostedBy(1) # <<>>
    /\ run[2] = InitRun

====
